---- MODULE Spec2Model ----
(***************************************************************************)
(* A model of src/main.rs: the Vulkan bootstrap VulkanApp::new, its        *)
(* selection algorithms and the teardown in Drop for VulkanApp.            *)
(*                                                                         *)
(* The driver is the environment: what it reports to a query is drawn     *)
(* from small sample sets.  u32 values are kept at their full width as    *)
(* two 16-bit limbs <<hi, lo>>, since TLC's integers stop at 2^31 - 1.     *)
(***************************************************************************)
EXTENDS Integers, Sequences, FiniteSets, TLC

VARIABLES
    pc,              \* the call main / VulkanApp::new / drop is about to make
    stmt,            \* in drop: the statement of DropStatements being executed
    cursor,          \* the loop position inside the current call (from 1)
    live,            \* the driver objects that exist: created and not destroyed
    stages,          \* the stages of VulkanApp::new entered so far, in order
    destroyed,       \* the destroy calls issued so far, in order
    the_physical_device, \* what pick_physical_device returned: the device
    the_indices,     \* ... and its QueueFamilyIndices
    swapchain_stuff, \* what create_swapchain negotiated
    images,          \* swapchain_images, in the order the driver gave them
    imageviews,      \* swapchain_imageviews
    framebuffers,    \* swapchain_framebuffers
    device_stuff,    \* what create_logical_device built and returned
    shader_code,     \* the buffers read_shader_code returned: vert, frag
    panic_message,   \* the message of the panic that ended the run
    fn,              \* the selection function applied ("none" in the bootstrap)
    arg,             \* its input
    ret              \* its result, Pending before the call

bootVars == <<pc, stmt, cursor, live, stages, destroyed, the_physical_device, the_indices,
              swapchain_stuff, images, imageviews, framebuffers, device_stuff,
              shader_code, panic_message>>

fnVars == <<fn, arg, ret>>

vars == <<bootVars, fnVars>>

(***************************************************************************)
(* u32 arithmetic on limbs.                                                *)
(***************************************************************************)
Limb == 2 ^ 16

U32(n) == <<n \div Limb, n % Limb>>

U32_MAX == <<Limb - 1, Limb - 1>>

U32Lt(a, b) == a[1] < b[1] \/ (a[1] = b[1] /\ a[2] < b[2])

U32Le(a, b) == a = b \/ U32Lt(a, b)

\* Ord::max and Ord::min on u32
U32MaxOf(a, b) == IF U32Lt(a, b) THEN b ELSE a

U32MinOf(a, b) == IF U32Lt(b, a) THEN b ELSE a

\* a + 1 modulo 2^32
U32WrappingSucc(a) ==
    IF a[2] + 1 < Limb THEN <<a[1], a[2] + 1>>
    ELSE <<(a[1] + 1) % Limb, 0>>

(***************************************************************************)
(* Results of a call: a value, or a panic.                                 *)
(***************************************************************************)
Pending == [kind |-> "pending"]

Ok(v) == [kind |-> "ok", value |-> v]

Panicked(m) == [kind |-> "panic", msg |-> m]

(***************************************************************************)
(* Program constants.                                                      *)
(***************************************************************************)
WIDTH == 800

HEIGHT == 600

DEVICE_EXTENSIONS == {"VK_KHR_swapchain"}

(***************************************************************************)
(* Bounds of the model.                                                    *)
(***************************************************************************)
MaxFormats == 3

MaxPresentModes == 3

MaxFamilies == 3

MaxDevices == 4

MaxImages == 2

MaxBootDevices == 2

SeqsUpTo(S, n) == UNION {[1..k -> S] : k \in 0..n}

(***************************************************************************)
(* choose_swapchain_format                                                 *)
(***************************************************************************)
Formats == {"R8G8B8A8_UNORM", "B8G8R8A8_UNORM"}

ColorSpaces == {"SRGB_NONLINEAR", "EXTENDED_SRGB_LINEAR"}

SurfaceFormats == [format : Formats, color_space : ColorSpaces]

RECURSIVE FormatScan(_, _)
\* the for loop of choose_swapchain_format from position i on
FormatScan(available_formats, i) ==
    IF i > Len(available_formats) THEN
        IF Len(available_formats) = 0
        THEN Panicked("unwrap on None at src/main.rs:418")
        ELSE Ok(Head(available_formats))
    ELSE IF /\ available_formats[i].format = "R8G8B8A8_UNORM"
            /\ available_formats[i].color_space = "SRGB_NONLINEAR"
         THEN Ok(available_formats[i])
         ELSE FormatScan(available_formats, i + 1)

\* mutant: the preference test looks at the format and forgets the color space
choose_swapchain_format_AnyColorSpace(available_formats) ==
    LET hits == {k \in 1..Len(available_formats) :
                    available_formats[k].format = "R8G8B8A8_UNORM"}
    IN  IF hits # {}
        THEN Ok(available_formats[CHOOSE k \in hits : \A m \in hits : k <= m])
        ELSE IF available_formats = <<>> THEN Panicked("unwrap on None")
        ELSE Ok(Head(available_formats))

choose_swapchain_format(available_formats) == FormatScan(available_formats, 1)

(***************************************************************************)
(* choose_swapchain_present_mode                                           *)
(***************************************************************************)
PresentModes == {"IMMEDIATE", "MAILBOX", "FIFO", "FIFO_RELAXED"}

RECURSIVE PresentModeScan(_, _)
PresentModeScan(available_present_modes, i) ==
    IF i > Len(available_present_modes) THEN Ok("FIFO")
    ELSE IF available_present_modes[i] = "MAILBOX"
         THEN Ok(available_present_modes[i])
         ELSE PresentModeScan(available_present_modes, i + 1)

\* mutant: the fallback is the first reported mode, as for the format
choose_swapchain_present_mode_FirstFallback(available_present_modes) ==
    IF \E k \in 1..Len(available_present_modes) :
           available_present_modes[k] = "MAILBOX"
    THEN Ok("MAILBOX")
    ELSE IF available_present_modes = <<>> THEN Panicked("unwrap on None")
    ELSE Ok(Head(available_present_modes))

choose_swapchain_present_mode(available_present_modes) ==
    PresentModeScan(available_present_modes, 1)

(***************************************************************************)
(* choose_swap_extent                                                      *)
(***************************************************************************)
\* mutant: the height is clamped from WIDTH, a copy of the width's lines
choose_swap_extent_HeightFromWidth(capabilities) ==
    IF capabilities.current_extent.width # U32_MAX
    THEN capabilities.current_extent
    ELSE [width  |-> U32MinOf(U32MaxOf(capabilities.min_image_extent.width,
                                       U32(WIDTH)),
                              capabilities.max_image_extent.width),
          height |-> U32MinOf(U32MaxOf(capabilities.min_image_extent.height,
                                       U32(WIDTH)),
                              capabilities.max_image_extent.height)]

choose_swap_extent(capabilities) ==
    IF capabilities.current_extent.width # U32_MAX
    THEN capabilities.current_extent
    ELSE [width  |-> U32MinOf(U32MaxOf(capabilities.min_image_extent.width,
                                       U32(WIDTH)),
                              capabilities.max_image_extent.width),
          height |-> U32MinOf(U32MaxOf(capabilities.min_image_extent.height,
                                       U32(HEIGHT)),
                              capabilities.max_image_extent.height)]

(***************************************************************************)
(* The image count of create_swapchain.  min_image_count + 1 is a u32      *)
(* addition: at u32::MAX it panics in a build with overflow checks (the    *)
(* debug profile) and wraps to 0 in a build without (the release profile). *)
(***************************************************************************)
image_count(capabilities, overflow_checks) ==
    IF capabilities.min_image_count = U32_MAX /\ overflow_checks
    THEN Panicked("attempt to add with overflow")
    ELSE LET sum == U32WrappingSucc(capabilities.min_image_count)
         IN  IF U32Lt(U32(0), capabilities.max_image_count)
             THEN Ok(U32MinOf(sum, capabilities.max_image_count))
             ELSE Ok(sum)

(***************************************************************************)
(* QueueFamilyIndices and find_queue_family.  Option<u32> is <<>> (None)   *)
(* or <<n>> (Some(n)); family indices count from 0 as in the source.       *)
(***************************************************************************)
None == <<>>

Some(x) == <<x>>

QueueFamilyIndices_new == [graphics_family |-> None, present_family |-> None]

is_complete(indices) ==
    indices.graphics_family # None /\ indices.present_family # None

\* a queue family as the driver reports it; present_support is the answer of
\* get_physical_device_surface_support for this family and the bound surface
QueueFlagSets == {{"TRANSFER"}, {"GRAPHICS"}, {"GRAPHICS", "TRANSFER"}}

QueueFamilies ==
    [queue_count : {0, 1}, queue_flags : QueueFlagSets, present_support : BOOLEAN]

\* mutant: the queue_count > 0 tests are left out
FindStep_AnyQueueCount(queue_family, index, indices) ==
    LET withGraphics ==
            IF "GRAPHICS" \in queue_family.queue_flags
            THEN [indices EXCEPT !.graphics_family = Some(index)]
            ELSE indices
    IN  IF queue_family.present_support
        THEN [withGraphics EXCEPT !.present_family = Some(index)]
        ELSE withGraphics

\* one iteration of the loop of find_queue_family, for the family at `index`
FindStep(queue_family, index, indices) ==
    LET withGraphics ==
            IF queue_family.queue_count > 0
               /\ "GRAPHICS" \in queue_family.queue_flags
            THEN [indices EXCEPT !.graphics_family = Some(index)]
            ELSE indices
    IN  IF queue_family.queue_count > 0 /\ queue_family.present_support
        THEN [withGraphics EXCEPT !.present_family = Some(index)]
        ELSE withGraphics

RECURSIVE FindScan(_, _, _)
\* the loop of find_queue_family from family index `index` on
FindScan(queue_families, index, indices) ==
    IF index >= Len(queue_families) THEN indices
    ELSE LET next == FindStep(queue_families[index + 1], index, indices)
         IN  IF is_complete(next) THEN next
             ELSE FindScan(queue_families, index + 1, next)

find_queue_family(queue_families) ==
    FindScan(queue_families, 0, QueueFamilyIndices_new)

(***************************************************************************)
(* Physical devices as the driver reports them.  A query answers Ok(v) or  *)
(* VkError; the code turns VkError into a panic with expect.               *)
(***************************************************************************)
VkError == [kind |-> "error"]

KnownDeviceTypes ==
    {"CPU", "INTEGRATED_GPU", "DISCRETE_GPU", "VIRTUAL_GPU", "OTHER"}

PreferredFormat == [format |-> "R8G8B8A8_UNORM", color_space |-> "SRGB_NONLINEAR"]

OtherFormat == [format |-> "B8G8R8A8_UNORM", color_space |-> "SRGB_NONLINEAR"]

SampleCapabilities ==
    [current_extent   |-> [width |-> U32_MAX, height |-> U32_MAX],
     min_image_extent |-> [width |-> U32(100), height |-> U32(100)],
     max_image_extent |-> [width |-> U32(2000), height |-> U32(2000)],
     min_image_count  |-> U32(2),
     max_image_count  |-> U32(0)]

Device(type, families, extensions, formats, present_modes) ==
    [device_type    |-> type,
     queue_families |-> families,
     extensions     |-> extensions,
     capabilities   |-> Ok(SampleCapabilities),
     formats        |-> formats,
     present_modes  |-> present_modes]

FamilyBoth == [queue_count |-> 1, queue_flags |-> {"GRAPHICS", "TRANSFER"},
               present_support |-> TRUE]

FamilyGraphics == [queue_count |-> 1, queue_flags |-> {"GRAPHICS"},
                   present_support |-> FALSE]

FamilyPresent == [queue_count |-> 1, queue_flags |-> {"TRANSFER"},
                  present_support |-> TRUE]

Swapchain == Ok({"VK_KHR_swapchain", "VK_KHR_maintenance1"})

NoSwapchain == Ok({"VK_KHR_maintenance1"})

DeviceSamples ==
    { Device("DISCRETE_GPU", <<FamilyBoth>>, Swapchain,
             Ok(<<PreferredFormat>>), Ok(<<"FIFO">>)),
      Device("INTEGRATED_GPU", <<FamilyGraphics, FamilyPresent>>, Swapchain,
             Ok(<<OtherFormat>>), Ok(<<"MAILBOX", "FIFO">>)),
      Device("DISCRETE_GPU", <<FamilyGraphics>>, Swapchain,
             Ok(<<PreferredFormat>>), Ok(<<"FIFO">>)),
      Device("CPU", <<FamilyGraphics>>, NoSwapchain,
             Ok(<<>>), Ok(<<>>)),
      Device("VIRTUAL_GPU", <<FamilyBoth>>, NoSwapchain,
             Ok(<<PreferredFormat>>), Ok(<<"FIFO">>)),
      Device("DISCRETE_GPU", <<FamilyBoth>>, Swapchain,
             Ok(<<>>), Ok(<<"FIFO">>)),
      Device("OTHER", <<FamilyBoth>>, Swapchain,
             Ok(<<PreferredFormat>>), Ok(<<>>)),
      Device("DISCRETE_GPU", <<FamilyBoth>>, VkError,
             Ok(<<PreferredFormat>>), Ok(<<"FIFO">>)),
      Device("DISCRETE_GPU", <<FamilyBoth>>, Swapchain,
             VkError, Ok(<<"FIFO">>)),
      Device("INTEGRATED_GPU", <<FamilyGraphics>>, VkError,
             Ok(<<PreferredFormat>>), Ok(<<"FIFO">>)),
      Device("UNRECOGNIZED", <<FamilyBoth>>, Swapchain,
             Ok(<<PreferredFormat>>), Ok(<<"FIFO">>)) }

(***************************************************************************)
(* check_device_extension_support, query_swapchain_support,                *)
(* is_device_suitable.  Each returns its result with the driver queries it *)
(* issued, in order.                                                       *)
(***************************************************************************)
check_device_extension_support(physical_device) ==
    IF physical_device.extensions.kind # "ok"
    THEN Panicked("Failed to get device extension properties.")
    ELSE Ok(DEVICE_EXTENSIONS \ physical_device.extensions.value = {})

query_swapchain_support(physical_device) ==
    IF physical_device.capabilities.kind # "ok"
    THEN Panicked("Failed to query for surface capabilities")
    ELSE IF physical_device.formats.kind # "ok"
    THEN Panicked("Failed to query for surface formats")
    ELSE IF physical_device.present_modes.kind # "ok"
    THEN Panicked("Failed to query for surface present modes")
    ELSE Ok([capabilities  |-> physical_device.capabilities.value,
             formats       |-> physical_device.formats.value,
             present_modes |-> physical_device.present_modes.value])

\* mutant: the completeness of the queue families is not part of the verdict
is_device_suitable_IgnoreQueueFamilies(physical_device, indices) ==
    IF physical_device.device_type \notin KnownDeviceTypes
    THEN [result  |-> Panicked("Matching on device type failed"),
          queries |-> <<"properties">>]
    ELSE
    LET is_device_extension_supported ==
            check_device_extension_support(physical_device)
    IN  IF is_device_extension_supported.kind = "panic"
        THEN [result  |-> is_device_extension_supported,
              queries |-> <<"properties", "extensions">>]
        ELSE IF ~ is_device_extension_supported.value
        THEN [result  |-> Ok(FALSE),
              queries |-> <<"properties", "extensions">>]
        ELSE
        LET swapchain_support == query_swapchain_support(physical_device)
        IN  IF swapchain_support.kind = "panic"
            THEN [result  |-> swapchain_support,
                  queries |-> <<"properties", "extensions", "swapchain_support">>]
            ELSE [result  |->
                      Ok(/\ swapchain_support.value.formats # <<>>
                         /\ swapchain_support.value.present_modes # <<>>),
                  queries |-> <<"properties", "extensions", "swapchain_support">>]

is_device_suitable(physical_device, indices) ==
    IF physical_device.device_type \notin KnownDeviceTypes
    THEN [result  |-> Panicked("Matching on device type failed"),
          queries |-> <<"properties">>]
    ELSE
    LET is_queue_family_supported == is_complete(indices)
        is_device_extension_supported ==
            check_device_extension_support(physical_device)
    IN  IF is_device_extension_supported.kind = "panic"
        THEN [result  |-> is_device_extension_supported,
              queries |-> <<"properties", "extensions">>]
        ELSE IF ~ is_device_extension_supported.value
        THEN [result  |-> Ok(FALSE),
              queries |-> <<"properties", "extensions">>]
        ELSE
        LET swapchain_support == query_swapchain_support(physical_device)
        IN  IF swapchain_support.kind = "panic"
            THEN [result  |-> swapchain_support,
                  queries |-> <<"properties", "extensions", "swapchain_support">>]
            ELSE [result  |->
                      Ok(/\ is_queue_family_supported
                         /\ swapchain_support.value.formats # <<>>
                         /\ swapchain_support.value.present_modes # <<>>),
                  queries |-> <<"properties", "extensions", "swapchain_support">>]

(***************************************************************************)
(* pick_physical_device.  A device's handle is its position (from 1) in    *)
(* the enumeration; `queries` lists <<handle, query>> in the order issued. *)
(***************************************************************************)
Tag(handle, queries) == [k \in 1..Len(queries) |-> <<handle, queries[k]>>]

RECURSIVE PickScan(_, _, _)
\* the for loop of pick_physical_device from position i on
PickScan(physical_devices, i, queries) ==
    IF i > Len(physical_devices)
    THEN [result  |-> Panicked("No suitable physical devices"),
          queries |-> queries]
    ELSE
    LET indices  == find_queue_family(physical_devices[i].queue_families)
        suitable == is_device_suitable(physical_devices[i], indices)
        issued   == queries \o Tag(i, <<"queue_families">> \o suitable.queries)
    IN  IF suitable.result.kind = "panic"
        THEN [result |-> suitable.result, queries |-> issued]
        ELSE IF suitable.result.value
        THEN [result  |-> Ok([physical_device |-> i, indices |-> indices]),
              queries |-> issued]
        ELSE PickScan(physical_devices, i + 1, issued)

\* mutant: every device is evaluated and the last suitable one is returned
pick_physical_device_LastMatch(enumeration) ==
    IF enumeration.kind # "ok"
    THEN [result  |-> Panicked("Failed to enumerate physical devices"),
          queries |-> <<>>]
    ELSE
    LET devices == enumeration.value
        indicesOf(k) == find_queue_family(devices[k].queue_families)
        verdict(k) == is_device_suitable(devices[k], indicesOf(k))
        hits == {k \in 1..Len(devices) :
                    verdict(k).result.kind = "ok" /\ verdict(k).result.value}
        all == [k \in 1..Len(devices) |-> <<k, "queue_families">>]
    IN  IF hits = {}
        THEN [result  |-> Panicked("No suitable physical devices"),
              queries |-> all]
        ELSE LET last == CHOOSE k \in hits : \A m \in hits : m <= k
             IN  [result  |-> Ok([physical_device |-> last,
                                  indices |-> indicesOf(last)]),
                  queries |-> all]

\* mutant: when no device is suitable the first one enumerated is taken
pick_physical_device_Fallback(enumeration) ==
    IF enumeration.kind # "ok"
    THEN [result  |-> Panicked("Failed to enumerate physical devices"),
          queries |-> <<>>]
    ELSE LET scanned == PickScan(enumeration.value, 1, <<>>)
         IN  IF scanned.result.kind = "panic" /\ enumeration.value # <<>>
             THEN [result  |->
                       Ok([physical_device |-> 1,
                           indices |->
                               find_queue_family(enumeration.value[1].queue_families)]),
                   queries |-> scanned.queries]
             ELSE scanned

pick_physical_device(enumeration) ==
    IF enumeration.kind # "ok"
    THEN [result  |-> Panicked("Failed to enumerate physical devices"),
          queries |-> <<>>]
    ELSE PickScan(enumeration.value, 1, <<>>)

(***************************************************************************)
(* The state before main calls VulkanApp::new.                             *)
(***************************************************************************)
NoDevice == [handle |-> 0]

NoSwapchainStuff == [kind |-> "none"]

NoDeviceStuff == [kind |-> "none"]

NoShaderCode == [kind |-> "none"]

InitBootVars ==
    /\ pc = "new"
    /\ stmt = 0
    /\ cursor = 1
    /\ live = {}
    /\ stages = <<>>
    /\ destroyed = <<>>
    /\ the_physical_device = NoDevice
    /\ the_indices = QueueFamilyIndices_new
    /\ swapchain_stuff = NoSwapchainStuff
    /\ images = <<>>
    /\ imageviews = <<>>
    /\ framebuffers = <<>>
    /\ device_stuff = NoDeviceStuff
    /\ shader_code = NoShaderCode
    /\ panic_message = ""

(***************************************************************************)
(* VulkanApp::new, stage by stage.  Every driver call of a stage can fail; *)
(* expect / unwrap / panic! then end the run: pc = "panic".  The handles   *)
(* are plain values without a Drop of their own, and the VulkanApp whose   *)
(* drop destroys them does not exist before new returns, so a panic        *)
(* destroys nothing.                                                       *)
(***************************************************************************)
Handle(kind, n) == <<kind, n>>

Instance == Handle("instance", 0)

SurfaceKHR == Handle("surface", 0)

LogicalDevice == Handle("device", 0)

DebugMessenger == Handle("debug_messenger", 0)

SwapchainKHR == Handle("swapchain", 0)

RenderPass == Handle("render_pass", 0)

PipelineLayout == Handle("pipeline_layout", 0)

GraphicsPipeline == Handle("graphics_pipeline", 0)

VertShaderModule == Handle("shader_module", 1)

FragShaderModule == Handle("shader_module", 2)

appVars == <<the_physical_device, the_indices, swapchain_stuff, images,
             imageviews, framebuffers, device_stuff, shader_code>>

\* the next call of new starts
Goto(stage) ==
    /\ pc' = stage
    /\ stages' = Append(stages, stage)
    /\ cursor' = 1
    /\ UNCHANGED panic_message

\* mutant: a failed call is reported and new returns what it has so far
Abort_Degraded(message) ==
    /\ pc' = "run"
    /\ panic_message' = message
    /\ UNCHANGED <<stages, cursor>>

\* a panic with this message: the run ends where it is
Abort(message) ==
    /\ pc' = "panic"
    /\ panic_message' = message
    /\ UNCHANGED <<stages, cursor>>

\* ash::Entry::new().unwrap()
LoadEntry ==
    /\ pc = "new"
    /\ \E loaded \in BOOLEAN :
           IF loaded THEN Goto("create_instance") ELSE Abort("unwrap on Err at src/main.rs:148")
    /\ UNCHANGED <<stmt, live, destroyed, appVars, fnVars>>

REQUIRED_VALIDATION_LAYERS == {"VK_LAYER_KHRONOS_validation"}

LayerSamples ==
    {VkError, Ok(<<>>), Ok(<<"VK_LAYER_LUNARG_api_dump">>),
     Ok(<<"VK_LAYER_LUNARG_api_dump", "VK_LAYER_KHRONOS_validation">>)}

check_validation_layers_support(layer_properties) ==
    IF Len(layer_properties) <= 0 THEN FALSE
    ELSE \A required_layer_name \in REQUIRED_VALIDATION_LAYERS :
             \E k \in 1..Len(layer_properties) :
                 layer_properties[k] = required_layer_name

CreateInstance ==
    /\ pc = "create_instance"
    /\ \E layer_properties \in LayerSamples, created \in BOOLEAN :
           IF layer_properties.kind # "ok"
           THEN /\ Abort("Failed to enumerate Instance Layer Properties!")
                /\ UNCHANGED live
           ELSE IF ~ check_validation_layers_support(layer_properties.value)
           THEN /\ Abort("Validation layers requested, but not available")
                /\ UNCHANGED live
           ELSE IF ~ created
           THEN Abort("Failed to create instance") /\ UNCHANGED live
           ELSE live' = live \cup {Instance} /\ Goto("create_surface")
    /\ UNCHANGED <<stmt, destroyed, appVars, fnVars>>

CreateSurface ==
    /\ pc = "create_surface"
    /\ \E created \in BOOLEAN :
           IF created
           THEN live' = live \cup {SurfaceKHR} /\ Goto("pick_physical_device")
           ELSE Abort("Failed to create surface") /\ UNCHANGED live
    /\ UNCHANGED <<stmt, destroyed, appVars, fnVars>>

BootEnumerations ==
    {VkError} \cup {Ok(l) : l \in SeqsUpTo(DeviceSamples, MaxBootDevices)}

PickPhysicalDevice ==
    /\ pc = "pick_physical_device"
    /\ \E enumeration \in BootEnumerations :
           LET picked == pick_physical_device(enumeration).result
           IN  IF picked.kind = "ok"
               THEN /\ the_physical_device' =
                           [handle     |-> picked.value.physical_device,
                            properties |->
                                enumeration.value[picked.value.physical_device]]
                    /\ the_indices' = picked.value.indices
                    /\ Goto("create_logical_device")
               ELSE /\ Abort(picked.msg)
                    /\ UNCHANGED <<the_physical_device, the_indices>>
    /\ UNCHANGED <<stmt, live, destroyed, swapchain_stuff, images, imageviews,
                   framebuffers, device_stuff, shader_code, fnVars>>

(***************************************************************************)
(* create_logical_device.  The two family indices go through a HashSet,    *)
(* whose iteration order is its own: `iteration` is the order in which the *)
(* for loop meets the distinct indices.                                    *)
(***************************************************************************)
unique_queue_families(indices) ==
    {indices.graphics_family[k] : k \in 1..Len(indices.graphics_family)} \cup
    {indices.present_family[k] : k \in 1..Len(indices.present_family)}

Iterations(S) ==
    {l \in [1..Cardinality(S) -> S] : \A a, b \in 1..Cardinality(S) : a # b => l[a] # l[b]}

get_device_queue(queue_family_index, queue_index) ==
    Handle("queue", <<queue_family_index, queue_index>>)

queue_priorities == <<"1.0">>

\* mutant: one descriptor per index, the HashSet left out
create_logical_device_NoDedup(indices, iteration, created) ==
    IF indices.graphics_family = None \/ indices.present_family = None
    THEN Panicked("unwrap on None")
    ELSE IF ~ created THEN Panicked("Failed to create logical Device!")
    ELSE LET both == <<indices.graphics_family[1], indices.present_family[1]>>
         IN  Ok([kind |-> "device",
                 queue_create_infos |->
                     [k \in 1..2 |->
                         [queue_family_index |-> both[k],
                          queue_count        |-> Len(queue_priorities)]],
                 graphics_queue |-> get_device_queue(both[1], 0),
                 present_queue  |-> get_device_queue(both[2], 0)])

create_logical_device(indices, iteration, created) ==
    IF indices.graphics_family = None
    THEN Panicked("unwrap on None at src/main.rs:802")
    ELSE IF indices.present_family = None
    THEN Panicked("unwrap on None at src/main.rs:803")
    ELSE
    LET graphics_family == indices.graphics_family[1]
        present_family  == indices.present_family[1]
        queue_create_infos ==
            [k \in 1..Len(iteration) |->
                [queue_family_index |-> iteration[k],
                 queue_count        |-> Len(queue_priorities)]]
    IN  IF ~ created
        THEN Panicked("Failed to create logical Device!")
        ELSE Ok([kind               |-> "device",
                 queue_create_infos |-> queue_create_infos,
                 graphics_queue     |-> get_device_queue(graphics_family, 0),
                 present_queue      |-> get_device_queue(present_family, 0)])

CreateLogicalDevice ==
    /\ pc = "create_logical_device"
    /\ \E created \in BOOLEAN,
          iteration \in Iterations(unique_queue_families(the_indices)) :
           LET made == create_logical_device(the_indices, iteration, created)
           IN  IF made.kind = "ok"
               THEN /\ live' = live \cup {LogicalDevice}
                    /\ device_stuff' = made.value
                    /\ Goto("setup_debug_utils")
               ELSE Abort(made.msg) /\ UNCHANGED <<live, device_stuff>>
    /\ UNCHANGED <<stmt, destroyed, the_physical_device, the_indices,
                   swapchain_stuff, images, imageviews, framebuffers,
                   shader_code, fnVars>>

SetupDebugUtils ==
    /\ pc = "setup_debug_utils"
    /\ \E created \in BOOLEAN :
           IF created
           THEN live' = live \cup {DebugMessenger} /\ Goto("create_swapchain")
           ELSE /\ Abort("Failed to create debug utils messenger")
                /\ UNCHANGED live
    /\ UNCHANGED <<stmt, destroyed, appVars, fnVars>>

\* what the driver may answer to the fresh queries of create_swapchain
DefinedCapabilities ==
    [current_extent   |-> [width |-> U32(1024), height |-> U32(768)],
     min_image_extent |-> [width |-> U32(1), height |-> U32(1)],
     max_image_extent |-> [width |-> U32(2000), height |-> U32(2000)],
     min_image_count  |-> U32(2),
     max_image_count  |-> U32(2)]

UnboundedCapabilities ==
    [SampleCapabilities EXCEPT !.min_image_count = U32_MAX]

FreshCapabilities ==
    {VkError, Ok(SampleCapabilities), Ok(DefinedCapabilities),
     Ok(UnboundedCapabilities)}

FreshFormats ==
    {VkError, Ok(<<>>), Ok(<<PreferredFormat>>), Ok(<<OtherFormat, PreferredFormat>>),
     Ok(<<OtherFormat>>)}

FreshPresentModes == {VkError, Ok(<<"FIFO">>), Ok(<<"MAILBOX", "FIFO">>)}

\* the image handles get_swapchain_images may return: distinct, in any order
ImageLists ==
    {l \in SeqsUpTo({Handle("image", n) : n \in 1..MaxImages}, MaxImages) :
        /\ l # <<>>
        /\ \A a, b \in 1..Len(l) : a # b => l[a] # l[b]}

\* image_sharing_mode of the create info
sharing_mode(indices) ==
    IF indices.graphics_family # indices.present_family
    THEN "CONCURRENT"
    ELSE "EXCLUSIVE"

(***************************************************************************)
(* p_queue_family_indices of the create info.  In the concurrent branch it *)
(* is vec![graphics, present].as_ptr(): the Vec is a temporary that is     *)
(* freed when the assignment ends, so at the create_swapchain call the     *)
(* pointer dangles.  What the driver reads behind it is not defined: the   *)
(* two words written, or whatever the allocator or a later allocation left *)
(* there.                                                                  *)
(***************************************************************************)
GarbageWords == {0, 1}

FreedContents(written) == {written} \cup [1..2 -> GarbageWords]

queue_family_indices(indices) ==
    IF indices.graphics_family # indices.present_family
    THEN IF indices.graphics_family = None
         THEN Panicked("unwrap on None at src/main.rs:495")
         ELSE IF indices.present_family = None
         THEN Panicked("unwrap on None at src/main.rs:496")
         ELSE Ok(<<indices.graphics_family[1], indices.present_family[1]>>)
    ELSE Ok(<<>>)

CreateSwapchain ==
    /\ pc = "create_swapchain"
    /\ \E capabilities \in FreshCapabilities, formats \in FreshFormats,
          present_modes \in FreshPresentModes, overflow_checks \in BOOLEAN,
          created \in BOOLEAN, got_images \in BOOLEAN, swapchain_images \in ImageLists :
         LET swapchain_support ==
                 query_swapchain_support(
                     [the_physical_device.properties EXCEPT
                         !.capabilities = capabilities,
                         !.formats = formats,
                         !.present_modes = present_modes])
         IN  IF swapchain_support.kind = "panic"
             THEN /\ Abort(swapchain_support.msg)
                  /\ UNCHANGED <<live, swapchain_stuff, images>>
             ELSE
             LET surface_format ==
                     choose_swapchain_format(swapchain_support.value.formats)
                 present_mode ==
                     choose_swapchain_present_mode(
                         swapchain_support.value.present_modes)
                 extent == choose_swap_extent(swapchain_support.value.capabilities)
                 count == image_count(swapchain_support.value.capabilities,
                                      overflow_checks)
                 written == queue_family_indices(the_indices)
             IN  IF surface_format.kind = "panic"
                 THEN /\ Abort(surface_format.msg)
                      /\ UNCHANGED <<live, swapchain_stuff, images>>
                 ELSE IF count.kind = "panic"
                 THEN /\ Abort(count.msg)
                      /\ UNCHANGED <<live, swapchain_stuff, images>>
                 ELSE IF written.kind = "panic"
                 THEN /\ Abort(written.msg)
                      /\ UNCHANGED <<live, swapchain_stuff, images>>
                 ELSE IF ~ created
                 THEN /\ Abort("Failed to create Swapchain")
                      /\ UNCHANGED <<live, swapchain_stuff, images>>
                 ELSE IF ~ got_images
                 THEN /\ Abort("Failed to get Swapchain Images.")
                      /\ live' = live \cup {SwapchainKHR}
                      /\ UNCHANGED <<swapchain_stuff, images>>
                 ELSE \E behind \in IF written.value = <<>> THEN {<<>>}
                                    ELSE FreedContents(written.value) :
                      /\ live' = live \cup {SwapchainKHR}
                      /\ swapchain_stuff' =
                             [kind             |-> "swapchain",
                              swapchain_format |-> surface_format.value.format,
                              swapchain_extent |-> extent,
                              create_info      |->
                                  [min_image_count    |-> count.value,
                                   image_format       |-> surface_format.value.format,
                                   image_color_space  |->
                                       surface_format.value.color_space,
                                   image_extent       |-> extent,
                                   present_mode       |-> present_mode.value,
                                   image_sharing_mode |-> sharing_mode(the_indices),
                                   queue_family_index_count |-> Len(written.value),
                                   queue_family_indices     |-> behind]]
                      /\ images' = swapchain_images
                      /\ Goto("create_image_views")
    /\ UNCHANGED <<stmt, destroyed, the_physical_device, the_indices, imageviews,
                   framebuffers, device_stuff, shader_code, fnVars>>

\* mutant: the new element goes to the front
push_Front(vec, element) == <<element>> \o vec

\* Vec::push
push(vec, element) == Append(vec, element)

\* one iteration of the loop of create_image_views; the last one returns
CreateImageView ==
    /\ pc = "create_image_views"
    /\ cursor <= Len(images)
    /\ \E created \in BOOLEAN :
           IF created
           THEN LET imageview == Handle("imageview", images[cursor][2])
                IN  /\ live' = live \cup {imageview}
                    /\ imageviews' = push(imageviews, imageview)
                    /\ IF cursor = Len(images)
                       THEN Goto("create_render_pass")
                       ELSE /\ cursor' = cursor + 1
                            /\ UNCHANGED <<pc, stages, panic_message>>
           ELSE /\ Abort("Failed to create Image View!")
                /\ UNCHANGED <<live, imageviews>>
    /\ UNCHANGED <<stmt, destroyed, the_physical_device, the_indices,
                   swapchain_stuff, images, framebuffers, device_stuff,
                   shader_code, fnVars>>

CreateRenderPass ==
    /\ pc = "create_render_pass"
    /\ \E created \in BOOLEAN :
           IF created
           THEN live' = live \cup {RenderPass} /\ Goto("create_graphics_pipeline")
           ELSE Abort("Failed to create render pass") /\ UNCHANGED live
    /\ UNCHANGED <<stmt, destroyed, appVars, fnVars>>

(***************************************************************************)
(* create_graphics_pipeline, first part: read_shader_code for both files,  *)
(* then create_shader_module for both buffers.  File::open failing is a    *)
(* panic ("missing").  After that a byte whose read fails is dropped by    *)
(* filter_map and the bytes read are collected all the same ("partial"):   *)
(* read_shader_code returns the shortened buffer as if it were the file.   *)
(***************************************************************************)
ReadOutcomes == {"missing", "partial", "full"}

read_shader_code(shader_path, outcome) ==
    IF outcome = "missing"
    THEN Panicked("Failed to find spv file at " \o shader_path)
    ELSE Ok(outcome)

LoadShaders ==
    /\ pc = "create_graphics_pipeline"
    /\ \E vert \in ReadOutcomes, frag \in ReadOutcomes,
          vert_created \in BOOLEAN, frag_created \in BOOLEAN :
           LET vert_shader_code == read_shader_code("shaders/vert.spv", vert)
               frag_shader_code == read_shader_code("shaders/frag.spv", frag)
           IN  IF vert_shader_code.kind = "panic"
               THEN /\ Abort(vert_shader_code.msg)
                    /\ UNCHANGED <<live, shader_code>>
               ELSE IF frag_shader_code.kind = "panic"
               THEN /\ Abort(frag_shader_code.msg)
                    /\ UNCHANGED <<live, shader_code>>
               ELSE /\ shader_code' = [kind |-> "code",
                                       vert |-> vert_shader_code.value,
                                       frag |-> frag_shader_code.value]
                    /\ IF ~ vert_created
                       THEN /\ Abort("Failed to create Shader Module.")
                            /\ UNCHANGED live
                       ELSE IF ~ frag_created
                       THEN /\ Abort("Failed to create Shader Module.")
                            /\ live' = live \cup {VertShaderModule}
                       ELSE /\ live' = live \cup {VertShaderModule, FragShaderModule}
                            /\ pc' = "create_pipeline_layout"
                            /\ UNCHANGED <<stages, cursor, panic_message>>
    /\ UNCHANGED <<stmt, destroyed, the_physical_device, the_indices,
                   swapchain_stuff, images, imageviews, framebuffers,
                   device_stuff, fnVars>>

\* second part: create_pipeline_layout, then create_graphics_pipelines
BuildPipeline ==
    /\ pc = "create_pipeline_layout"
    /\ \E layout_created \in BOOLEAN, pipeline_created \in BOOLEAN :
           IF ~ layout_created
           THEN Abort("Failed to create pipeline layout") /\ UNCHANGED live
           ELSE IF ~ pipeline_created
           THEN /\ Abort("Failed to greate graphics pipeline")
                /\ live' = live \cup {PipelineLayout}
           ELSE /\ live' = live \cup {PipelineLayout, GraphicsPipeline}
                /\ pc' = "destroy_shader_module"
                /\ UNCHANGED <<stages, cursor, panic_message>>
    /\ UNCHANGED <<stmt, destroyed, appVars, fnVars>>

Destroyed(call, handle, by) == [call |-> call, handle |-> handle, by |-> by]

\* last part: the two shader modules are destroyed, new goes on
DestroyShaderModules ==
    /\ pc = "destroy_shader_module"
    /\ live' = live \ {VertShaderModule, FragShaderModule}
    /\ destroyed' = destroyed \o
           <<Destroyed("destroy_shader_module", VertShaderModule,
                       "create_graphics_pipeline"),
             Destroyed("destroy_shader_module", FragShaderModule,
                       "create_graphics_pipeline")>>
    /\ Goto("create_framebuffers")
    /\ UNCHANGED <<stmt, appVars, fnVars>>

\* one iteration of the loop of create_framebuffers; after the last one new
\* builds the VulkanApp and main calls run
CreateFramebuffer ==
    /\ pc = "create_framebuffers"
    /\ cursor <= Len(imageviews)
    /\ \E created \in BOOLEAN :
           IF created
           THEN LET framebuffer == Handle("framebuffer", imageviews[cursor][2])
                IN  /\ live' = live \cup {framebuffer}
                    /\ framebuffers' = push(framebuffers, framebuffer)
                    /\ IF cursor = Len(imageviews)
                       THEN /\ pc' = "run"
                            /\ cursor' = 1
                            /\ UNCHANGED <<stages, panic_message>>
                       ELSE /\ cursor' = cursor + 1
                            /\ UNCHANGED <<pc, stages, panic_message>>
           ELSE /\ Abort("Failed to create Framebuffer!")
                /\ UNCHANGED <<live, framebuffers>>
    /\ UNCHANGED <<stmt, destroyed, the_physical_device, the_indices,
                   swapchain_stuff, images, imageviews, device_stuff,
                   shader_code, fnVars>>

\* run: the event loop ends on CloseRequested and the VulkanApp it owns is
\* dropped
Run ==
    /\ pc = "run"
    /\ pc' = "drop"
    /\ stmt' = 1
    /\ cursor' = 1
    /\ UNCHANGED <<live, stages, destroyed, appVars, panic_message, fnVars>>

(***************************************************************************)
(* Drop for VulkanApp: the statements of drop in program order, one action *)
(* per destroy call.                                                       *)
(***************************************************************************)
\* mutant: the logical device is destroyed before the swapchain
DropStatements_DeviceEarly ==
    <<"swapchain_framebuffers", "graphics_pipeline", "pipeline_layout",
      "render_pass", "swapchain_imageviews", "device", "swapchain", "surface",
      "debug_messenger", "instance">>

\* mutant: the messenger is destroyed before the surface
DropStatements_MessengerEarly ==
    <<"swapchain_framebuffers", "graphics_pipeline", "pipeline_layout",
      "render_pass", "swapchain_imageviews", "swapchain", "device",
      "debug_messenger", "surface", "instance">>

DropStatements ==
    <<"swapchain_framebuffers", "graphics_pipeline", "pipeline_layout",
      "render_pass", "swapchain_imageviews", "swapchain", "device", "surface",
      "debug_messenger", "instance">>

InDrop(statement) ==
    /\ pc = "drop"
    /\ stmt <= Len(DropStatements)
    /\ DropStatements[stmt] = statement

\* the statement is done: on to the next one, or drop returns
NextStatement ==
    /\ cursor' = 1
    /\ IF stmt = Len(DropStatements)
       THEN pc' = "exit" /\ stmt' = stmt
       ELSE pc' = pc /\ stmt' = stmt + 1

\* a statement that destroys one handle
DestroyOne(call, handle) ==
    /\ live' = live \ {handle}
    /\ destroyed' = Append(destroyed, Destroyed(call, handle, "drop"))
    /\ NextStatement
    /\ UNCHANGED <<stages, appVars, panic_message, fnVars>>

\* one iteration of a statement that loops over a Vec of handles
DestroyEach(call, handles) ==
    /\ IF cursor <= Len(handles)
       THEN /\ live' = live \ {handles[cursor]}
            /\ destroyed' =
                   Append(destroyed, Destroyed(call, handles[cursor], "drop"))
            /\ IF cursor = Len(handles)
               THEN NextStatement
               ELSE cursor' = cursor + 1 /\ UNCHANGED <<pc, stmt>>
       ELSE NextStatement /\ UNCHANGED <<live, destroyed>>
    /\ UNCHANGED <<stages, appVars, panic_message, fnVars>>

DestroyFramebuffer ==
    /\ InDrop("swapchain_framebuffers")
    /\ DestroyEach("destroy_framebuffer", framebuffers)

DestroyPipeline ==
    /\ InDrop("graphics_pipeline")
    /\ DestroyOne("destroy_pipeline", GraphicsPipeline)

DestroyPipelineLayout ==
    /\ InDrop("pipeline_layout")
    /\ DestroyOne("destroy_pipeline_layout", PipelineLayout)

DestroyRenderPass ==
    /\ InDrop("render_pass")
    /\ DestroyOne("destroy_render_pass", RenderPass)

DestroyImageView ==
    /\ InDrop("swapchain_imageviews")
    /\ DestroyEach("destroy_image_view", imageviews)

DestroySwapchain ==
    /\ InDrop("swapchain")
    /\ DestroyOne("destroy_swapchain", SwapchainKHR)

DestroyDevice ==
    /\ InDrop("device")
    /\ DestroyOne("destroy_device", LogicalDevice)

DestroySurface ==
    /\ InDrop("surface")
    /\ DestroyOne("destroy_surface", SurfaceKHR)

DestroyDebugUtilsMessenger ==
    /\ InDrop("debug_messenger")
    /\ DestroyOne("destroy_debug_utils_messenger", DebugMessenger)

DestroyInstance ==
    /\ InDrop("instance")
    /\ DestroyOne("destroy_instance", Instance)

Init ==
    /\ InitBootVars
    /\ fn = "none"
    /\ arg = <<>>
    /\ ret = Pending

Next ==
    \/ LoadEntry
    \/ CreateInstance
    \/ CreateSurface
    \/ PickPhysicalDevice
    \/ CreateLogicalDevice
    \/ SetupDebugUtils
    \/ CreateSwapchain
    \/ CreateImageView
    \/ CreateRenderPass
    \/ LoadShaders
    \/ BuildPipeline
    \/ DestroyShaderModules
    \/ CreateFramebuffer
    \/ Run
    \/ DestroyFramebuffer
    \/ DestroyPipeline
    \/ DestroyPipelineLayout
    \/ DestroyRenderPass
    \/ DestroyImageView
    \/ DestroySwapchain
    \/ DestroyDevice
    \/ DestroySurface
    \/ DestroyDebugUtilsMessenger
    \/ DestroyInstance

Spec == Init /\ [][Next]_vars

(***************************************************************************)
(* The selection functions applied to every input of a bounded set: one    *)
(* specification per function, Init drawing the input, the action applying *)
(* the function.                                                           *)
(***************************************************************************)
Apply(name, result) ==
    /\ fn = name
    /\ ret = Pending
    /\ ret' = result
    /\ UNCHANGED <<bootVars, fn, arg>>

\* choose_swapchain_format
FormatLists == SeqsUpTo(SurfaceFormats, MaxFormats)

InitFormat ==
    /\ InitBootVars
    /\ fn = "choose_swapchain_format"
    /\ arg \in FormatLists
    /\ ret = Pending

CallFormat == Apply("choose_swapchain_format", choose_swapchain_format(arg))

SpecFormat == InitFormat /\ [][CallFormat]_vars

\* choose_swapchain_present_mode
PresentModeLists == SeqsUpTo(PresentModes, MaxPresentModes)

InitPresentMode ==
    /\ InitBootVars
    /\ fn = "choose_swapchain_present_mode"
    /\ arg \in PresentModeLists
    /\ ret = Pending

CallPresentMode ==
    Apply("choose_swapchain_present_mode", choose_swapchain_present_mode(arg))

SpecPresentMode == InitPresentMode /\ [][CallPresentMode]_vars

\* choose_swap_extent
CurrentDims == {U32(768), U32(1024), U32_MAX}

MinDims == {U32(1), U32(100), U32(900), U32(3000)}

MaxDims == {U32(50), U32(700), U32(2000), U32_MAX}

Extents(dims) == [width : dims, height : dims]

ExtentCapabilities ==
    [current_extent   : Extents(CurrentDims),
     min_image_extent : Extents(MinDims),
     max_image_extent : Extents(MaxDims)]

InitExtent ==
    /\ InitBootVars
    /\ fn = "choose_swap_extent"
    /\ arg \in ExtentCapabilities
    /\ ret = Pending

CallExtent == Apply("choose_swap_extent", Ok(choose_swap_extent(arg)))

SpecExtent == InitExtent /\ [][CallExtent]_vars

\* the image count of create_swapchain
U32_MAX_MINUS_1 == <<Limb - 1, Limb - 2>>

CountSamples == {U32(0), U32(1), U32(2), U32(3), U32(4), U32_MAX_MINUS_1, U32_MAX}

InitImageCount ==
    /\ InitBootVars
    /\ fn = "image_count"
    /\ arg \in [capabilities    : [min_image_count : CountSamples,
                                   max_image_count : CountSamples],
                overflow_checks : BOOLEAN]
    /\ ret = Pending

CallImageCount ==
    Apply("image_count", image_count(arg.capabilities, arg.overflow_checks))

SpecImageCount == InitImageCount /\ [][CallImageCount]_vars

\* find_queue_family
InitQueueFamily ==
    /\ InitBootVars
    /\ fn = "find_queue_family"
    /\ arg \in SeqsUpTo(QueueFamilies, MaxFamilies)
    /\ ret = Pending

CallQueueFamily == Apply("find_queue_family", Ok(find_queue_family(arg)))

SpecQueueFamily == InitQueueFamily /\ [][CallQueueFamily]_vars

\* pick_physical_device; its result record carries the queries it issued
InitPick ==
    /\ InitBootVars
    /\ fn = "pick_physical_device"
    /\ arg \in {VkError} \cup {Ok(l) : l \in SeqsUpTo(DeviceSamples, MaxDevices)}
    /\ ret = Pending

CallPick ==
    LET r == pick_physical_device(arg)
    IN  Apply("pick_physical_device",
              IF r.result.kind = "ok"
              THEN [kind |-> "ok", value |-> r.result.value, queries |-> r.queries]
              ELSE [kind |-> "panic", msg |-> r.result.msg, queries |-> r.queries])

SpecPick == InitPick /\ [][CallPick]_vars

\* create_logical_device, for every pair of optional family indices
IndexOptions == {None} \cup {Some(n) : n \in 0..MaxFamilies}

InitLogicalDevice ==
    /\ InitBootVars
    /\ fn = "create_logical_device"
    /\ arg \in [indices : [graphics_family : IndexOptions,
                           present_family  : IndexOptions],
                created : BOOLEAN]
    /\ ret = Pending

CallLogicalDevice ==
    \E iteration \in Iterations(unique_queue_families(arg.indices)) :
        Apply("create_logical_device",
              create_logical_device(arg.indices, iteration, arg.created))

SpecLogicalDevice == InitLogicalDevice /\ [][CallLogicalDevice]_vars

(***************************************************************************)
(* Claims.                                                                 *)
(***************************************************************************)
Range(seq) == {seq[k] : k \in 1..Len(seq)}

\* the destroy calls issued by drop, in order
ByDrop(entry) == entry.by = "drop"

DropCalls == SelectSeq(destroyed, ByDrop)

\* C1: drop issues its destroy calls in this order, each resource once: all
\* framebuffers, the graphics pipeline, the pipeline layout, the render pass,
\* all image views, the swapchain, the logical device, the surface, the
\* diagnostics messenger, the instance.
TeardownOrder ==
    <<"destroy_framebuffer", "destroy_pipeline", "destroy_pipeline_layout",
      "destroy_render_pass", "destroy_image_view", "destroy_swapchain",
      "destroy_device", "destroy_surface", "destroy_debug_utils_messenger",
      "destroy_instance">>

TeardownKinds ==
    <<"framebuffer", "graphics_pipeline", "pipeline_layout", "render_pass",
      "imageview", "swapchain", "device", "surface", "debug_messenger",
      "instance">>

Rank(call) == CHOOSE r \in 1..Len(TeardownOrder) : TeardownOrder[r] = call

\* everything the VulkanApp owns
Owned ==
    Range(framebuffers) \cup Range(imageviews) \cup
    {GraphicsPipeline, PipelineLayout, RenderPass, SwapchainKHR, LogicalDevice,
     SurfaceKHR, DebugMessenger, Instance}

C1_TeardownOrder ==
    /\ \A a \in 1..Len(DropCalls) :
           /\ \E r \in 1..Len(TeardownOrder) : TeardownOrder[r] = DropCalls[a].call
           /\ DropCalls[a].handle[1] = TeardownKinds[Rank(DropCalls[a].call)]
    /\ \A a, b \in 1..Len(DropCalls) :
           a < b => /\ Rank(DropCalls[a].call) <= Rank(DropCalls[b].call)
                    /\ DropCalls[a].handle # DropCalls[b].handle
    /\ pc = "exit" => {DropCalls[a].handle : a \in 1..Len(DropCalls)} = Owned

\* drop has returned after destroying two framebuffers, two image views and
\* the eight single resources
C1_Witness ==
    /\ pc = "exit"
    /\ Len(framebuffers) = 2 /\ Len(imageviews) = 2
    /\ Len(DropCalls) = 12
    /\ DropCalls[12].call = "destroy_instance"

\* C2: through bootstrap and teardown, every live resource has the resources
\* it was created from or refers to still live.
Parents(handle) ==
    CASE handle[1] = "framebuffer" ->
             {Handle("imageview", handle[2]), RenderPass, LogicalDevice}
      [] handle[1] = "graphics_pipeline" ->
             {RenderPass, PipelineLayout, LogicalDevice}
      [] handle[1] = "imageview" -> {SwapchainKHR, LogicalDevice}
      [] handle[1] = "swapchain" -> {LogicalDevice, SurfaceKHR}
      [] handle[1] \in {"render_pass", "pipeline_layout", "shader_module"} ->
             {LogicalDevice}
      [] handle[1] \in {"device", "surface", "debug_messenger"} -> {Instance}
      [] OTHER -> {}

C2_ParentsOutlive == \A handle \in live : Parents(handle) \subseteq live

\* in the middle of teardown: framebuffers, pipeline and image views are gone,
\* the swapchain is gone, the device, surface and instance still exist
C2_Witness ==
    /\ pc = "drop"
    /\ Len(DropCalls) >= 6
    /\ SwapchainKHR \notin live
    /\ {LogicalDevice, SurfaceKHR, DebugMessenger, Instance} \subseteq live

\* C3: when bootstrap is cut short by a fatal failure, every resource the
\* completed stages created is destroyed, in the teardown order restricted to
\* what was created.
C3_PartialTeardown ==
    pc = "panic" =>
        /\ live = {}
        /\ \A a, b \in 1..Len(DropCalls) :
               a < b => Rank(DropCalls[a].call) <= Rank(DropCalls[b].call)

Contains(seq, x) == \E k \in 1..Len(seq) : seq[k] = x

Returned == ret.kind # "pending"

\* C7: choose_swapchain_format returns exactly the pair (R8G8B8A8_UNORM,
\* SRGB_NONLINEAR) for every list that contains it, wherever it stands, and
\* the first element for every non-empty list that lacks it (length 1 too).
C7_FormatSelection ==
    (fn = "choose_swapchain_format" /\ Returned) =>
        /\ Contains(arg, PreferredFormat) =>
               (ret.kind = "ok" /\ ret.value = PreferredFormat)
        /\ (arg # <<>> /\ ~ Contains(arg, PreferredFormat)) =>
               (ret.kind = "ok" /\ ret.value = arg[1])

\* the pair stands last in a list of three whose first element has the
\* preferred format in another color space, and the function has returned it
C7_Witness ==
    /\ fn = "choose_swapchain_format" /\ Returned
    /\ Len(arg) = 3 /\ arg[3] = PreferredFormat
    /\ arg[1].format = "R8G8B8A8_UNORM" /\ arg[1] # PreferredFormat
    /\ arg[2] # PreferredFormat
    /\ ret.kind = "ok" /\ ret.value = PreferredFormat

\* C8: choose_swapchain_present_mode returns MAILBOX for every list that
\* contains it and FIFO for every list without it, the empty list included;
\* it never fails.
C8_PresentModeSelection ==
    (fn = "choose_swapchain_present_mode" /\ Returned) =>
        /\ ret.kind = "ok"
        /\ Contains(arg, "MAILBOX") => ret.value = "MAILBOX"
        /\ ~ Contains(arg, "MAILBOX") => ret.value = "FIFO"

\* the empty list was given and FIFO came back
C8_Witness ==
    /\ fn = "choose_swapchain_present_mode" /\ Returned
    /\ arg = <<>>
    /\ ret.kind = "ok" /\ ret.value = "FIFO"

\* C9: choose_swap_extent returns the current extent whenever it is defined,
\* whatever min_image_extent and max_image_extent are; when the current
\* extent is the sentinel (0xFFFFFFFF, 0xFFFFFFFF) it returns (800, 600)
\* clamped per axis, so an axis with min <= max ends within [min, max].
Sentinel == [width |-> U32_MAX, height |-> U32_MAX]

Defined(extent) == extent.width # U32_MAX /\ extent.height # U32_MAX

Clamped(requested, lo, hi) ==
    IF U32Lt(requested, lo) THEN lo
    ELSE IF U32Lt(hi, requested) THEN hi
    ELSE requested

C9_ExtentSelection ==
    (fn = "choose_swap_extent" /\ Returned) =>
        /\ Defined(arg.current_extent) => ret.value = arg.current_extent
        /\ arg.current_extent = Sentinel =>
            /\ U32Le(arg.min_image_extent.width, arg.max_image_extent.width) =>
                   ret.value.width = Clamped(U32(800), arg.min_image_extent.width,
                                             arg.max_image_extent.width)
            /\ U32Le(arg.min_image_extent.height, arg.max_image_extent.height) =>
                   ret.value.height = Clamped(U32(600), arg.min_image_extent.height,
                                              arg.max_image_extent.height)

\* the sentinel with min = (100, 100) and max = (2000, 2000) gave (800, 600)
C9_Witness ==
    /\ fn = "choose_swap_extent" /\ Returned
    /\ arg.current_extent = Sentinel
    /\ arg.min_image_extent = [width |-> U32(100), height |-> U32(100)]
    /\ arg.max_image_extent = [width |-> U32(2000), height |-> U32(2000)]
    /\ ret.value = [width |-> U32(800), height |-> U32(600)]

\* C10: the image count requested is min_image_count + 1, or max_image_count
\* when that is nonzero and min_image_count + 1 exceeds it; a max_image_count
\* of zero never lowers the count.  (min_image_count + 1 is the integer sum:
\* at min_image_count = 0xFFFFFFFF it is 2^32, above every u32.)
C10_ImageCount ==
    (fn = "image_count" /\ Returned /\ ret.kind = "ok") =>
        LET min == arg.capabilities.min_image_count
            max == arg.capabilities.max_image_count
            sumExceedsMax == min = U32_MAX \/ U32Lt(max, U32WrappingSucc(min))
        IN  IF max # U32(0) /\ sumExceedsMax
            THEN ret.value = max
            ELSE /\ min # U32_MAX
                 /\ ret.value = U32WrappingSucc(min)
                 /\ U32Lt(min, ret.value)

\* C5: find_queue_family returns the lowest family index that supports
\* graphics as the graphics index and, independently, the lowest family index
\* that supports presentation as the present index (None where there is none).
SupportsGraphics(queue_family) ==
    queue_family.queue_count > 0 /\ "GRAPHICS" \in queue_family.queue_flags

SupportsPresent(queue_family) ==
    queue_family.queue_count > 0 /\ queue_family.present_support

Lowest(S) == IF S = {} THEN None ELSE Some(CHOOSE k \in S : \A m \in S : k <= m)

GraphicsIndexes(queue_families) ==
    {k - 1 : k \in {n \in 1..Len(queue_families) : SupportsGraphics(queue_families[n])}}

PresentIndexes(queue_families) ==
    {k - 1 : k \in {n \in 1..Len(queue_families) : SupportsPresent(queue_families[n])}}

C5_LowestIndexes ==
    (fn = "find_queue_family" /\ Returned) =>
        /\ ret.value.graphics_family = Lowest(GraphicsIndexes(arg))
        /\ ret.value.present_family = Lowest(PresentIndexes(arg))

\* C6: the indices find_queue_family returns are complete if and only if some
\* family with a nonzero queue count supports graphics and some family with a
\* nonzero queue count supports presentation; an index that is set names a
\* family that has the capability.
C6_CompleteIff ==
    (fn = "find_queue_family" /\ Returned) =>
        /\ is_complete(ret.value) <=>
               (GraphicsIndexes(arg) # {} /\ PresentIndexes(arg) # {})
        /\ ret.value.graphics_family # None =>
               ret.value.graphics_family[1] \in GraphicsIndexes(arg)
        /\ ret.value.present_family # None =>
               ret.value.present_family[1] \in PresentIndexes(arg)

\* a three-family device: family 0 has the graphics flag but no queue, family
\* 1 supports graphics only, family 2 presentation only; the result is
\* complete with graphics 1 and present 2
C6_Witness ==
    /\ fn = "find_queue_family" /\ Returned
    /\ Len(arg) = 3
    /\ arg[1].queue_count = 0 /\ "GRAPHICS" \in arg[1].queue_flags
    /\ GraphicsIndexes(arg) = {1} /\ PresentIndexes(arg) = {2}
    /\ is_complete(ret.value)
    /\ ret.value = [graphics_family |-> Some(1), present_family |-> Some(2)]

\* C4: pick_physical_device returns the first device of the enumeration for
\* which queue-family completeness, required-extension support and swapchain
\* adequacy all hold, with that device's queue family indices, and issues no
\* query for a device after it.
ExtensionsSupported(device) ==
    device.extensions.kind = "ok" /\ DEVICE_EXTENSIONS \subseteq device.extensions.value

SwapchainAdequate(device) ==
    /\ device.formats.kind = "ok" /\ device.formats.value # <<>>
    /\ device.present_modes.kind = "ok" /\ device.present_modes.value # <<>>

AllThreeHold(device) ==
    /\ GraphicsIndexes(device.queue_families) # {}
    /\ PresentIndexes(device.queue_families) # {}
    /\ ExtensionsSupported(device)
    /\ SwapchainAdequate(device)

\* every query the code puts to this device is answered
Answers(device) ==
    /\ device.device_type \in KnownDeviceTypes
    /\ device.extensions.kind = "ok"
    /\ ExtensionsSupported(device) =>
           (device.formats.kind = "ok" /\ device.present_modes.kind = "ok")

C4_FirstSuitable ==
    (fn = "pick_physical_device" /\ Returned /\ arg.kind = "ok") =>
        LET devices == arg.value
            firsts == {k \in 1..Len(devices) :
                          /\ AllThreeHold(devices[k])
                          /\ \A m \in 1..(k - 1) : ~ AllThreeHold(devices[m])}
        IN  /\ ret.kind = "ok" =>
                /\ ret.value.physical_device \in firsts
                /\ ret.value.indices =
                       find_queue_family(devices[ret.value.physical_device].queue_families)
                /\ is_complete(ret.value.indices)
                /\ \A q \in 1..Len(ret.queries) :
                       ret.queries[q][1] <= ret.value.physical_device
            /\ \A k \in firsts :
                   (\A m \in 1..k : Answers(devices[m])) =>
                       (ret.kind = "ok" /\ ret.value.physical_device = k)

\* four devices of which only the third passes all three predicates: it is
\* returned and nothing was asked about the fourth
C4_Witness ==
    /\ fn = "pick_physical_device" /\ Returned /\ arg.kind = "ok"
    /\ Len(arg.value) = 4
    /\ \A k \in 1..4 : AllThreeHold(arg.value[k]) <=> k = 3
    /\ ret.kind = "ok" /\ ret.value.physical_device = 3
    /\ \A q \in 1..Len(ret.queries) : ret.queries[q][1] # 4
    /\ \E q \in 1..Len(ret.queries) : ret.queries[q] = <<3, "swapchain_support">>

\* C11: create_swapchain requests concurrent sharing exactly when the graphics
\* and present family indices differ, and then the queue family index list
\* the driver finds in the create info at the create_swapchain call is
\* <<graphics, present>>; with equal indices it requests exclusive sharing.
C11_SharingMode ==
    swapchain_stuff.kind = "swapchain" =>
        LET create_info == swapchain_stuff.create_info
            differ == the_indices.graphics_family # the_indices.present_family
        IN  /\ create_info.image_sharing_mode = "CONCURRENT" <=> differ
            /\ ~ differ => create_info.image_sharing_mode = "EXCLUSIVE"
            /\ differ =>
                   /\ create_info.queue_family_index_count = 2
                   /\ create_info.queue_family_indices =
                          <<the_indices.graphics_family[1],
                            the_indices.present_family[1]>>

\* C12: a failure in any stage of VulkanApp::new ends the run in a panic at
\* that stage: the stages entered are an initial part of the fixed stage
\* order (none entered twice), nothing exists that a stage not yet entered
\* would have created, no step follows the panic, and a VulkanApp is returned
\* (run, drop) only when every stage was entered and none has failed.
StageOrder ==
    <<"create_instance", "create_surface", "pick_physical_device",
      "create_logical_device", "setup_debug_utils", "create_swapchain",
      "create_image_views", "create_render_pass", "create_graphics_pipeline",
      "create_framebuffers">>

IsPrefix(s, t) == Len(s) <= Len(t) /\ \A k \in 1..Len(s) : s[k] = t[k]

StageOf(kind) ==
    CASE kind = "instance" -> "create_instance"
      [] kind = "surface" -> "create_surface"
      [] kind = "device" -> "create_logical_device"
      [] kind = "debug_messenger" -> "setup_debug_utils"
      [] kind = "swapchain" -> "create_swapchain"
      [] kind = "imageview" -> "create_image_views"
      [] kind = "render_pass" -> "create_render_pass"
      [] kind \in {"shader_module", "pipeline_layout", "graphics_pipeline"} ->
             "create_graphics_pipeline"
      [] kind = "framebuffer" -> "create_framebuffers"

AppReturned == pc \in {"run", "drop", "exit"}

Passing(devices) == {k \in 1..Len(devices) : AllThreeHold(devices[k])}

C13_NoSuitableDevice ==
    (fn = "pick_physical_device" /\ Returned /\ arg.kind = "ok") =>
        /\ Passing(arg.value) = {} =>
               /\ ret.kind = "panic"
               /\ (\A k \in 1..Len(arg.value) : Answers(arg.value[k])) =>
                      ret.msg = "No suitable physical devices"
        /\ ret.kind = "ok" => ret.value.physical_device \in Passing(arg.value)
        /\ \A a, b \in 1..Len(ret.queries) :
               (a # b /\ ret.queries[a][2] = "queue_families") =>
                   ret.queries[a] # ret.queries[b]

\* three devices, each failing another predicate (incomplete queue families,
\* no swapchain extension, no surface format): every one was examined and the
\* call ended in the panic
C13_Witness ==
    /\ fn = "pick_physical_device" /\ Returned /\ arg.kind = "ok"
    /\ Len(arg.value) = 3
    /\ PresentIndexes(arg.value[1].queue_families) = {}
    /\ ExtensionsSupported(arg.value[1])
    /\ ~ ExtensionsSupported(arg.value[2]) /\ Answers(arg.value[2])
    /\ ExtensionsSupported(arg.value[3]) /\ arg.value[3].formats = Ok(<<>>)
    /\ ret.kind = "panic" /\ ret.msg = "No suitable physical devices"
    /\ \A k \in 1..3 : \E q \in 1..Len(ret.queries) :
           ret.queries[q] = <<k, "queue_families">>

\* C14: a shader file that cannot be opened, or cannot be read in full, ends
\* create_graphics_pipeline in a panic: a shader module exists only for a
\* buffer that holds its whole file, and the pipeline only when both do.
WholeFile(buffer) == buffer = "full"

C14_ShaderLoad ==
    /\ VertShaderModule \in live => WholeFile(shader_code.vert)
    /\ FragShaderModule \in live =>
           (WholeFile(shader_code.vert) /\ WholeFile(shader_code.frag))
    /\ GraphicsPipeline \in live =>
           (WholeFile(shader_code.vert) /\ WholeFile(shader_code.frag))

\* C15: create_logical_device builds one queue create info per distinct index
\* of {graphics, present}, each for one queue: one when the indices are
\* equal, two when they differ, never two for one family; the queues it
\* returns are queue 0 of the graphics family and queue 0 of the present
\* family, the same queue exactly when the indices are equal.
C15_QueueCreateInfos ==
    (fn = "create_logical_device" /\ Returned /\ ret.kind = "ok") =>
        LET graphics == arg.indices.graphics_family[1]
            present  == arg.indices.present_family[1]
            infos    == ret.value.queue_create_infos
        IN  /\ Len(infos) = IF graphics = present THEN 1 ELSE 2
            /\ {infos[k].queue_family_index : k \in 1..Len(infos)} =
                   {graphics, present}
            /\ \A a, b \in 1..Len(infos) :
                   a # b => infos[a].queue_family_index # infos[b].queue_family_index
            /\ \A k \in 1..Len(infos) : infos[k].queue_count = 1
            /\ ret.value.graphics_queue = Handle("queue", <<graphics, 0>>)
            /\ ret.value.present_queue = Handle("queue", <<present, 0>>)
            /\ ret.value.graphics_queue = ret.value.present_queue <=>
                   graphics = present

\* graphics family 2 and present family 0: two create infos, the one for
\* family 0 first, and two different queues
C15_Witness ==
    /\ fn = "create_logical_device" /\ Returned /\ ret.kind = "ok"
    /\ arg.indices = [graphics_family |-> Some(2), present_family |-> Some(0)]
    /\ Len(ret.value.queue_create_infos) = 2
    /\ ret.value.queue_create_infos[1].queue_family_index = 0
    /\ ret.value.queue_create_infos[2].queue_family_index = 2
    /\ ret.value.graphics_queue # ret.value.present_queue

\* C16: is_device_suitable evaluates queue-family completeness, then
\* required-extension support, then swapchain adequacy, and stops at the
\* first that fails: for no device is the extension query issued when its
\* queue families are incomplete, and the swapchain-support query is issued
\* only when the queue families are complete and the extensions supported,
\* after the extension query.
Asked(device, query) == Contains(ret.queries, <<device, query>>)

Position(device, query) ==
    CHOOSE q \in 1..Len(ret.queries) : ret.queries[q] = <<device, query>>

C16_ShortCircuit ==
    (fn = "pick_physical_device" /\ Returned /\ arg.kind = "ok") =>
        \A k \in 1..Len(arg.value) :
            LET complete ==
                    is_complete(find_queue_family(arg.value[k].queue_families))
            IN  /\ Asked(k, "extensions") => complete
                /\ Asked(k, "swapchain_support") =>
                       /\ complete
                       /\ ExtensionsSupported(arg.value[k])
                       /\ Asked(k, "extensions")
                       /\ Position(k, "extensions") <
                              Position(k, "swapchain_support")

\* C17: once VulkanApp::new has returned, swapchain_imageviews and
\* swapchain_framebuffers are as long as the swapchain image list, the i-th
\* image view is the view of the i-th image and the i-th framebuffer the one
\* attached to the i-th image view; drop destroys exactly these framebuffers
\* and these image views, one call each.  (A view carries the number of the
\* image it was created for, a framebuffer that of its attachment.)
DropCallsOf(call) ==
    SelectSeq(DropCalls, LAMBDA entry : entry.call = call)

HandlesOf(calls) == [k \in 1..Len(calls) |-> calls[k].handle]

C17_ViewsAndFramebuffers ==
    /\ AppReturned =>
           /\ Len(imageviews) = Len(images)
           /\ Len(framebuffers) = Len(images)
           /\ \A i \in 1..Len(images) :
                  /\ imageviews[i] = Handle("imageview", images[i][2])
                  /\ framebuffers[i] = Handle("framebuffer", imageviews[i][2])
    /\ pc = "exit" =>
           /\ HandlesOf(DropCallsOf("destroy_framebuffer")) = framebuffers
           /\ HandlesOf(DropCallsOf("destroy_image_view")) = imageviews
           /\ Len(DropCallsOf("destroy_framebuffer")) = Len(images)
           /\ Len(DropCallsOf("destroy_image_view")) = Len(images)

\* the driver gave image 2 before image 1: the views and the framebuffers
\* follow that order, and drop has destroyed two of each
C17_Witness ==
    /\ pc = "exit"
    /\ images = <<Handle("image", 2), Handle("image", 1)>>
    /\ imageviews = <<Handle("imageview", 2), Handle("imageview", 1)>>
    /\ framebuffers = <<Handle("framebuffer", 2), Handle("framebuffer", 1)>>
    /\ Len(DropCallsOf("destroy_framebuffer")) = 2
    /\ Len(DropCallsOf("destroy_image_view")) = 2

\* C18: in every run of the bootstrap, also one in which the driver answers
\* the fresh format query of create_swapchain otherwise than it answered the
\* suitability check of the selected device, choose_swapchain_format is given
\* a non-empty list: create_swapchain never ends in the unwrap of a missing
\* first element, and the format it settles on is one the fresh query listed.
FormatPanic == "unwrap on None at src/main.rs:418"

C18_FreshFormatsNonEmpty ==
    /\ ~ (pc = "panic" /\ panic_message = FormatPanic)
    /\ swapchain_stuff.kind = "swapchain" =>
           \E fresh \in FreshFormats :
               /\ fresh.kind = "ok"
               /\ Contains(fresh.value,
                           [format      |-> swapchain_stuff.create_info.image_format,
                            color_space |->
                                swapchain_stuff.create_info.image_color_space])

\* C19: create_logical_device and create_swapchain are entered only with
\* queue family indices that are complete and are the ones find_queue_family
\* computed for the selected device, itself a device that passes the three
\* predicates; neither of them ever unwraps an unset graphics or present
\* index.
UnsetIndexPanics ==
    {"unwrap on None at src/main.rs:802", "unwrap on None at src/main.rs:803",
     "unwrap on None at src/main.rs:495", "unwrap on None at src/main.rs:496"}

C19_IndicesComplete ==
    /\ Contains(stages, "create_logical_device") =>
           /\ is_complete(the_indices)
           /\ the_indices =
                  find_queue_family(the_physical_device.properties.queue_families)
           /\ AllThreeHold(the_physical_device.properties)
    /\ panic_message \notin UnsetIndexPanics
    /\ device_stuff.kind = "device" =>
           /\ device_stuff.graphics_queue =
                  Handle("queue", <<the_indices.graphics_family[1], 0>>)
           /\ device_stuff.present_queue =
                  Handle("queue", <<the_indices.present_family[1], 0>>)

\* a device with a graphics-only family 0 and a present-only family 1 was
\* selected: the logical device has a queue of each family and the swapchain
\* was created for concurrent sharing
C19_Witness ==
    /\ pc = "create_image_views"
    /\ the_indices = [graphics_family |-> Some(0), present_family |-> Some(1)]
    /\ device_stuff.kind = "device"
    /\ device_stuff.graphics_queue # device_stuff.present_queue
    /\ swapchain_stuff.kind = "swapchain"
    /\ swapchain_stuff.create_info.image_sharing_mode = "CONCURRENT"

====
